---- MODULE Spec2Model ----
(***************************************************************************)
(* Weather-alerts browser client (src/index.js, lines 86-168: the last     *)
(* declarations of fetchWeatherAlerts, displayAlerts, showError and the    *)
(* click handler in the file).                                             *)
(*                                                                         *)
(* Strings typed by the user are sequences of one-character strings, so    *)
(* that toUpperCase and the truthiness test `!state` are computed.         *)
(* A DOM text that is built from a template literal is the tuple of its    *)
(* pieces.  The page is the four DOM handles of lines 92-95.               *)
(***************************************************************************)
EXTENDS Integers, Sequences, FiniteSets, TLC

VARIABLES
    stateInput,    \* stateInput.value
    alertsDiv,     \* children of the alerts container, in document order
    errorDisplay,  \* errorDiv.style.display
    errorText,     \* errorDiv.innerText
    pending,       \* click cycles suspended at an await
    nextId,        \* number of clicks so far
    settled,       \* the finished click cycles, in settlement order
    last           \* what the most recent click cycle (or renderer call) did

vars == <<stateInput, alertsDiv, errorDisplay, errorText, pending, nextId, settled, last>>

dom == <<stateInput, alertsDiv, errorDisplay, errorText>>

(***************************************************************************)
(* Bounds                                                                  *)
(***************************************************************************)
MaxCycles == 2
MaxFeatures == 2
MaxCalls == 2

(***************************************************************************)
(* Constants of the program                                                *)
(***************************************************************************)
weatherApi == "https://api.weather.gov/alerts/active?area="

MsgEnterState == "Please enter a state abbreviation."
MsgFetchFailed == "Failed to fetch data. Please check your state code."

\* Messages the test suite expects for the HTTP failures.
MsgCityNotFound == "City not found. Please check the city name."
MsgInvalidKey == "Invalid API key. Please check your configuration."
MsgServerError == "Failed to fetch weather data. Please try again."

\* Messages of the TypeErrors raised inside displayAlerts (V8 wording).
MsgNullData == "Cannot read properties of null (reading 'features')"
MsgNoLength == "Cannot read properties of undefined (reading 'length')"
MsgNoHeadline == "Cannot read properties of undefined (reading 'headline')"

\* Messages of a rejected fetch() and of a rejected response.json().
TransportMessages == {"Network error", "Network timeout"}
MsgParse == "Unexpected end of JSON input"

Statuses == {200, 401, 404, 500}

\* response.ok
ResponseOk(status) == status >= 200 /\ status <= 299

(***************************************************************************)
(* Strings                                                                 *)
(***************************************************************************)
\* The upper-case form of one character, for the characters of InputValues.
UpperChar(ch) ==
    CASE ch = "n" -> "N"
      [] ch = "c" -> "C"
      [] ch = "y" -> "Y"
      [] ch = "a" -> "A"
      [] OTHER -> ch

\* String.prototype.toUpperCase
toUpperCase(s) == [i \in 1..Len(s) |-> UpperChar(s[i])]

\* !state for a string: only the empty string is falsy
IsFalsy(s) == Len(s) = 0

\* s.trim() === ""
IsBlank(s) == \A i \in 1..Len(s) : s[i] = " "

\* What the user may type into the input field.
InputValues == { <<>>, <<" ">>, <<"n", "y">>, <<"C", "a">> }

(***************************************************************************)
(* Response bodies                                                         *)
(*                                                                         *)
(* A parsed body is JSON null, an object without a features field, or an   *)
(* object whose features is an array of alerts.  An alert is an object     *)
(* without properties, with properties that lack a headline, or with a     *)
(* headline.  The headline the service sends for an area names that area.  *)
(***************************************************************************)
RECURSIVE SeqsUpTo(_, _)
SeqsUpTo(S, n) ==
    IF n = 0 THEN { <<>> }
    ELSE LET shorter == SeqsUpTo(S, n - 1)
         IN  shorter \cup { Append(q, x) : q \in { r \in shorter : Len(r) = n - 1 }, x \in S }

NoText == <<>>

Alerts(area) ==
    { [hasProperties |-> FALSE, hasHeadline |-> FALSE, headline |-> NoText],
      [hasProperties |-> TRUE, hasHeadline |-> FALSE, headline |-> NoText],
      [hasProperties |-> TRUE, hasHeadline |-> TRUE, headline |-> <<area, 1>>],
      [hasProperties |-> TRUE, hasHeadline |-> TRUE, headline |-> <<area, 2>>] }

NullData == [isNull |-> TRUE, hasFeatures |-> FALSE, features |-> <<>>]

NoData == [isNull |-> FALSE, hasFeatures |-> FALSE, features |-> <<>>]

Payloads(area) ==
    { NullData, NoData }
    \cup { [isNull |-> FALSE, hasFeatures |-> TRUE, features |-> f] :
             f \in SeqsUpTo(Alerts(area), MaxFeatures) }

\* The bodies the service may send for a request: those for the area in its
\* URL, here with at most one alert.
Bodies(url) == { d \in Payloads(url.area) : Len(d.features) <= 1 }

\* The area named in the request URL `${weatherApi}${state}`.
RequestUrl(state) == [base |-> weatherApi, area |-> state]

(***************************************************************************)
(* The page                                                                *)
(***************************************************************************)
Element(tag, text, items) == [tag |-> tag, text |-> text, items |-> items]

\* `Current watches, warnings, and advisories for ${state}: ${alertCount}`
SummaryText(state, alertCount) ==
    <<"Current watches, warnings, and advisories for ", state, ": ", alertCount>>

NoAlertsText == <<"No alerts at this time.">>

\* item.textContent = alert.properties.headline : an undefined headline is
\* written as the empty text.
ItemText(alert) == IF alert.hasHeadline THEN alert.headline ELSE NoText

ListItems(features) ==
    [i \in 1..Len(features) |-> Element("li", ItemText(features[i]), <<>>)]

Page(input, alerts, display, text) ==
    [input |-> input, alerts |-> alerts, display |-> display, text |-> text]

Returned(page) == [page |-> page, threw |-> FALSE, message |-> ""]

Thrown(page, message) == [page |-> page, threw |-> TRUE, message |-> message]

\* displayAlerts without `errorDiv.innerText = ""`.
displayAlertsKeepText(d, state, data) ==
    LET cleared == Page(d.input, <<>>, "none", d.text)
        alertCount == Len(data.features)
        withSummary ==
            Page(d.input, <<Element("h3", SummaryText(state, alertCount), <<>>)>>,
                 "none", d.text)
    IN  IF data.isNull THEN Thrown(cleared, MsgNullData)
        ELSE IF ~data.hasFeatures THEN Thrown(cleared, MsgNoLength)
        ELSE IF alertCount > 0
        THEN IF \E i \in 1..alertCount : ~data.features[i].hasProperties
             THEN Thrown(withSummary, MsgNoHeadline)
             ELSE Returned(Page(<<>>,
                                Append(withSummary.alerts,
                                       Element("ul", NoText, ListItems(data.features))),
                                "none", d.text))
        ELSE Returned(Page(<<>>,
                           Append(withSummary.alerts, Element("p", NoAlertsText, <<>>)),
                           "none", d.text))

\* function displayAlerts(state, data), applied to the page `d`.  The result
\* carries the page as the function left it and whether it threw.
displayAlerts(d, state, data) ==
    LET cleared == Page(d.input, <<>>, "none", "")
        alertCount == Len(data.features)
        withSummary ==
            Page(d.input, <<Element("h3", SummaryText(state, alertCount), <<>>)>>, "none", "")
    IN  IF data.isNull THEN Thrown(cleared, MsgNullData)
        ELSE IF ~data.hasFeatures THEN Thrown(cleared, MsgNoLength)
        ELSE IF alertCount > 0
        THEN IF \E i \in 1..alertCount : ~data.features[i].hasProperties
             THEN Thrown(withSummary, MsgNoHeadline)
             ELSE Returned(Page(<<>>,
                                Append(withSummary.alerts,
                                       Element("ul", NoText, ListItems(data.features))),
                                "none", ""))
        ELSE Returned(Page(<<>>,
                           Append(withSummary.alerts, Element("p", NoAlertsText, <<>>)),
                           "none", ""))

\* function showError(message), applied to the page `d`.
showError(d, message) == Page(d.input, d.alerts, "block", message)

\* The body of the click handler after `await fetchWeatherAlerts(state)`
\* returned `data`: displayAlerts inside the try, showError in the catch.
RenderData(d, state, data) ==
    LET r == displayAlerts(d, state, data)
    IN  IF r.threw
        THEN [page |-> showError(r.page, r.message),
              calls |-> <<"displayAlerts", "showError">>,
              message |-> r.message]
        ELSE [page |-> r.page, calls |-> <<"displayAlerts">>, message |-> ""]

\* The body of the click handler after `await fetchWeatherAlerts(state)`
\* was rejected with an error carrying `message`.
RenderFailure(d, message) ==
    [page |-> showError(d, message), calls |-> <<"showError">>, message |-> message]

(***************************************************************************)
(* Click cycles                                                            *)
(***************************************************************************)
CurrentPage == Page(stateInput, alertsDiv, errorDisplay, errorText)

SetPage(d) ==
    /\ stateInput' = d.input
    /\ alertsDiv' = d.alerts
    /\ errorDisplay' = d.display
    /\ errorText' = d.text

\* The handler reading the input field again after the await.
HandlerStateLive(c) == toUpperCase(stateInput)

\* `const state` of the click handler, as the code after the await reads it.
HandlerState(c) == c.state

\* The record of a finished click cycle.
Finished(c, status, fetchOk, data, r) ==
    [id |-> c.id, state |-> c.state, area |-> c.url.area, status |-> status,
     fetchOk |-> fetchOk, data |-> data, calls |-> r.calls, message |-> r.message]

NoCycle ==
    [id |-> 0, state |-> <<>>, area |-> <<>>, status |-> 0, fetchOk |-> FALSE,
     data |-> NoData, calls |-> <<>>, message |-> ""]

\* The entry of a finished click cycle in the settlement log.
Entry(c, requested, r) ==
    [id |-> c.id, state |-> c.state, requested |-> requested, calls |-> r.calls]

\* Settle with a request token: the render of a cycle that is not the most
\* recently triggered one is dropped.
SettleIfLatest(c, status, fetchOk, data, r) ==
    /\ IF c.id = nextId THEN SetPage(r.page) ELSE UNCHANGED dom
    /\ pending' = pending \ {c}
    /\ settled' = Append(settled, Entry(c, TRUE, r))
    /\ last' = Finished(c, status, fetchOk, data, r)
    /\ UNCHANGED nextId

\* The click cycle ends: its render is applied to the page.
Settle(c, status, fetchOk, data, r) ==
    /\ SetPage(r.page)
    /\ pending' = pending \ {c}
    /\ settled' = Append(settled, Entry(c, TRUE, r))
    /\ last' = Finished(c, status, fetchOk, data, r)
    /\ UNCHANGED nextId

\* The page as loaded: empty input, empty alerts container, hidden and empty
\* error region (style="display: none;"), no click yet.
Init ==
    /\ stateInput = <<>>
    /\ alertsDiv = <<>>
    /\ errorDisplay = "none"
    /\ errorText = ""
    /\ pending = {}
    /\ nextId = 0
    /\ settled = <<>>
    /\ last = NoCycle

\* The user edits the input field.
TypeInput ==
    /\ \E v \in InputValues : v # stateInput /\ stateInput' = v
    /\ UNCHANGED <<alertsDiv, errorDisplay, errorText, pending, nextId, settled, last>>

\* Click with the alerts container emptied while the request is loading.
ClickLoading ==
    /\ nextId < MaxCycles
    /\ nextId' = nextId + 1
    /\ LET state == toUpperCase(stateInput)
           c == [id |-> nextId + 1, state |-> state, url |-> RequestUrl(state),
                 stage |-> "fetch"]
       IN  IF IsFalsy(state)
           THEN LET r == RenderFailure(CurrentPage, MsgEnterState)
                IN  /\ SetPage(r.page)
                    /\ settled' = Append(settled, Entry(c, FALSE, r))
                    /\ last' = Finished(c, 0, FALSE, NoData, r)
                    /\ UNCHANGED pending
           ELSE /\ pending' = pending \cup {c}
                /\ alertsDiv' = <<>>
                /\ UNCHANGED <<stateInput, errorDisplay, errorText, settled, last>>

\* The click listener runs up to its first suspension.  fetchWeatherAlerts
\* throws on a falsy state before it awaits anything, and the handler's
\* catch runs before any other task; otherwise the request is issued and the
\* cycle is suspended at `await fetch(...)`.
Click ==
    /\ nextId < MaxCycles
    /\ nextId' = nextId + 1
    /\ LET state == toUpperCase(stateInput)
           c == [id |-> nextId + 1, state |-> state, url |-> RequestUrl(state),
                 stage |-> "fetch"]
       IN  IF IsFalsy(state)
           THEN LET r == RenderFailure(CurrentPage, MsgEnterState)
                IN  /\ SetPage(r.page)
                    /\ settled' = Append(settled, Entry(c, FALSE, r))
                    /\ last' = Finished(c, 0, FALSE, NoData, r)
                    /\ UNCHANGED pending
           ELSE /\ pending' = pending \cup {c}
                /\ UNCHANGED <<dom, settled, last>>

\* fetch() rejects: transport failure.
FetchRejected ==
    \E c \in pending, m \in TransportMessages :
        /\ c.stage = "fetch"
        /\ Settle(c, 0, FALSE, NoData, RenderFailure(CurrentPage, m))

\* fetch() resolves with a response: a non-success status throws, a success
\* status suspends the cycle at `await response.json()`.
FetchResponded ==
    \E c \in pending, status \in Statuses :
        /\ c.stage = "fetch"
        /\ IF ResponseOk(status)
           THEN /\ pending' = (pending \ {c}) \cup {[c EXCEPT !.stage = "json"]}
                /\ UNCHANGED <<dom, nextId, settled, last>>
           ELSE Settle(c, status, FALSE, NoData, RenderFailure(CurrentPage, MsgFetchFailed))

\* response.json() rejects: the body is not JSON.
JsonRejected ==
    \E c \in pending :
        /\ c.stage = "json"
        /\ Settle(c, 200, FALSE, NoData, RenderFailure(CurrentPage, MsgParse))

\* response.json() resolves: fetchWeatherAlerts returns the data and the
\* handler renders it.
JsonResolved ==
    \E c \in pending :
        /\ c.stage = "json"
        /\ \E data \in Bodies(c.url) :
               Settle(c, 200, TRUE, data, RenderData(CurrentPage, HandlerState(c), data))

Next ==
    \/ TypeInput
    \/ Click
    \/ FetchRejected
    \/ FetchResponded
    \/ JsonRejected
    \/ JsonResolved

Spec == Init /\ [][Next]_vars

(***************************************************************************)
(* The renderer on its own: any sequence of calls of its two entry points  *)
(***************************************************************************)
Locations == { toUpperCase(v) : v \in InputValues }

Messages == { MsgEnterState, MsgFetchFailed } \cup TransportMessages

\* What a renderer call found on the page: the error region, and whether the
\* alerts container had children.
Before(d) == [display |-> d.display, text |-> d.text, hadAlerts |-> d.alerts # <<>>]

NoCall ==
    [op |-> "none", state |-> <<>>, data |-> NoData, threw |-> FALSE, message |-> "",
     before |-> Before(Page(<<>>, <<>>, "none", ""))]

InitRender ==
    /\ stateInput = <<>>
    /\ alertsDiv = <<>>
    /\ errorDisplay = "none"
    /\ errorText = ""
    /\ pending = {}
    /\ nextId = 0
    /\ settled = <<>>
    /\ last = NoCall

CallDisplayAlerts ==
    /\ nextId < MaxCalls
    /\ nextId' = nextId + 1
    /\ \E state \in Locations : \E data \in Payloads(state) :
           LET r == displayAlerts(CurrentPage, state, data)
           IN  /\ SetPage(r.page)
               /\ last' = [op |-> "displayAlerts", state |-> state, data |-> data,
                           threw |-> r.threw, message |-> r.message,
                           before |-> Before(CurrentPage)]
    /\ UNCHANGED <<pending, settled>>

CallShowError ==
    /\ nextId < MaxCalls
    /\ nextId' = nextId + 1
    /\ \E m \in Messages :
           /\ SetPage(showError(CurrentPage, m))
           /\ last' = [op |-> "showError", state |-> <<>>, data |-> NoData,
                       threw |-> FALSE, message |-> m, before |-> Before(CurrentPage)]
    /\ UNCHANGED <<pending, settled>>

NextRender ==
    \/ TypeInput
    \/ CallDisplayAlerts
    \/ CallShowError

SpecRender == InitRender /\ [][NextRender]_vars

(***************************************************************************)
(* Properties                                                              *)
(***************************************************************************)
ResultsShown == alertsDiv # <<>>

ErrorShown == errorDisplay = "block" /\ errorText # ""

\* C1: after click cycles rendered by displayAlerts alone or by showError
\* alone, the alerts container and the error region are never both shown
\* with content.
ResultsAndErrorExclusive ==
    (last.id # 0 /\ Len(last.calls) = 1) => ~(ResultsShown /\ ErrorShown)

\* C2: a blank location code (empty or only whitespace) never has a network
\* request in flight, and its cycle ends with the "Please enter ..." error.
BlankInputNoNetworkCall ==
    /\ \A c \in pending : ~IsBlank(c.state)
    /\ \A i \in 1..Len(settled) : IsBlank(settled[i].state) => ~settled[i].requested
    /\ (last.id # 0 /\ IsBlank(last.state)) => last.message = MsgEnterState

\* C3: a finished click cycle called exactly one renderer: displayAlerts if
\* its fetch succeeded, showError if it was rejected.
ExactlyOneRenderer ==
    last.id # 0 =>
        last.calls = IF last.fetchOk THEN <<"displayAlerts">> ELSE <<"showError">>

\* C4: a non-success HTTP status fails the fetch with the message of that
\* status: 404, 401, any other.
StatusSpecificMessage ==
    (last.id # 0 /\ last.status # 0 /\ ~ResponseOk(last.status)) =>
        last.message = CASE last.status = 404 -> MsgCityNotFound
                         [] last.status = 401 -> MsgInvalidKey
                         [] OTHER -> MsgServerError

\* C5: when displayAlerts has completed, the error region is hidden and its
\* text is empty, whatever error was shown before.
DisplayAlertsClearsError ==
    (last.op = "displayAlerts" /\ ~last.threw) =>
        (errorDisplay = "none" /\ errorText = "")

DisplayAlertsAfterError ==
    /\ last.op = "displayAlerts"
    /\ ~last.threw
    /\ last.before.display = "block"
    /\ last.before.text = MsgFetchFailed
    /\ errorText = ""

\* C6: neither renderer entry point throws, whatever parsed body or message
\* it is given.
RenderersTotal == ~last.threw

\* C7: a click cycle whose fetch succeeded got a body of its own request,
\* and what it rendered carries the location code captured at its trigger
\* and the headlines of that body.
OwnPayloadRendered ==
    (last.id # 0 /\ last.fetchOk) =>
        /\ last.area = last.state
        /\ last.data \in Payloads(last.state)
        /\ alertsDiv = <<>> \/ alertsDiv[1].text[2] = last.state
        /\ last.calls = <<"displayAlerts">> =>
               /\ alertsDiv[1].text[4] = Len(last.data.features)
               /\ \A i \in 1..Len(last.data.features) :
                      last.data.features[i].hasHeadline =>
                          /\ alertsDiv[2].items[i].text = last.data.features[i].headline
                          /\ alertsDiv[2].items[i].text[1] = last.state

ConcurrentBothRendered ==
    /\ Len(settled) = 2
    /\ settled[1].id = 2 /\ settled[2].id = 1
    /\ settled[1].requested /\ settled[2].requested
    /\ settled[1].state # settled[2].state
    /\ settled[1].calls = <<"displayAlerts">>
    /\ settled[2].calls = <<"displayAlerts">>
    /\ Len(last.data.features) = 1
    /\ last.data.features[1].hasHeadline

\* C8: for a body whose features is a sequence of alerts, displayAlerts
\* leaves exactly a summary with the given location and the number of
\* features, followed by one list item per alert with its headline, in order,
\* or by "No alerts at this time." when there are none.
DisplayAlertsContent ==
    (last.op = "displayAlerts" /\ last.data.hasFeatures) =>
        LET features == last.data.features
            count == Len(features)
        IN  /\ ~last.threw
            /\ Len(alertsDiv) = 2
            /\ alertsDiv[1].tag = "h3"
            /\ alertsDiv[1].text[2] = last.state
            /\ alertsDiv[1].text[4] = count
            /\ alertsDiv[1].items = <<>>
            /\ IF count > 0
               THEN /\ alertsDiv[2].tag = "ul"
                    /\ Len(alertsDiv[2].items) = count
                    /\ \A i \in 1..count :
                           /\ alertsDiv[2].items[i].tag = "li"
                           /\ features[i].hasHeadline =>
                                  alertsDiv[2].items[i].text = features[i].headline
               ELSE /\ alertsDiv[2].tag = "p"
                    /\ alertsDiv[2].text = NoAlertsText
                    /\ alertsDiv[2].items = <<>>

\* What the page holds when it shows the outcome of the finished cycle `f`.
ShowsOutcome(f) ==
    IF f.calls = <<"displayAlerts">>
    THEN /\ errorDisplay = "none"
         /\ errorText = ""
         /\ Len(alertsDiv) = 2
         /\ alertsDiv[1].text = SummaryText(f.state, Len(f.data.features))
    ELSE /\ errorDisplay = "block"
         /\ errorText = f.message

\* C9: outcomes are applied in settlement order: the page shows the outcome
\* of the cycle that settled last, also when that cycle was triggered before
\* one that settled earlier.
LastSettledWins ==
    last.id # 0 =>
        /\ last.id = settled[Len(settled)].id
        /\ ShowsOutcome(last)

EarlierCycleSettledLast ==
    /\ Len(settled) = 2
    /\ settled[1].id = 2 /\ settled[2].id = 1
    /\ settled[1].requested /\ settled[2].requested
    /\ settled[1].calls = <<"showError">>
    /\ settled[2].calls = <<"displayAlerts">>
    /\ last.id = 1
    /\ errorDisplay = "none"
    /\ alertsDiv # <<>>

\* C10: a step of a click cycle that does not finish it (the trigger with a
\* non-empty location code, the arrival of the response) changes nothing in
\* the input field, the alerts container or the error region.
PendingLeavesPage ==
    [][(pending' # pending /\ settled' = settled) => UNCHANGED dom]_vars

PendingOverOldResults ==
    /\ ResultsShown
    /\ \E c \in pending : c.stage = "json" /\ alertsDiv[1].text[2] # c.state
    /\ ~ErrorShown
    /\ settled # <<>>

====
